---------------------------- MODULE Spec2Model ----------------------------
(***************************************************************************)
(* Model of FBNicknameFinder (main.py): the scan of exported conversation  *)
(* files for "... set your nickname to ..." messages, the mojibake repair  *)
(* of the nickname found, and the command-line run around them.            *)
(*                                                                         *)
(* A Python str is a sequence of code points (naturals); a bytes object is *)
(* a sequence of naturals below 256.  A dict is a function whose DOMAIN is *)
(* the set of keys present, so a missing key is a KeyError.                *)
(***************************************************************************)
EXTENDS Integers, Sequences, FiniteSets, TLC

VARIABLES
    pc,         \* where __main__ (or the caller of the finder) stands
    username,   \* self.username
    result,     \* self._result
    crashed,    \* self.crashed
    mode,       \* "files" or "dir": the method that is running or ran last
    todo,       \* entries the loop of that method has still to visit
    cur,        \* the entry the loop visited last
    msg,        \* the line printed for it ("none" if nothing was printed)
    warned,     \* WARN lines printed since the last _initProcess
    outfile,    \* <<>> or the one document writeResult has written
    stale,      \* the call before the last _initProcess had left records
    rt          \* the strings of the round trip

vars == <<pc, username, result, crashed, mode, todo, cur, msg, warned,
          outfile, stale, rt>>

(***************************************************************************)
(* Bounds of the model.                                                    *)
(***************************************************************************)
MaxFiles == 2   \* paths in one findInFiles list / entries in one directory
MaxMsgs == 2    \* messages in one conversation file
MaxLen == 2     \* code points in a string given to the round trip

(***************************************************************************)
(* Values.                                                                 *)
(***************************************************************************)
None == <<-2>>          \* Python None where a str may stand
Raised == <<-1>>        \* an exception left the expression

SeqsUpTo(S, n) == UNION {[1..k -> S] : k \in 0..n}

(***************************************************************************)
(* Codecs: str.encode / bytes.decode for 'utf-8' and 'latin1'.             *)
(***************************************************************************)
IsSurrogate(cp) == cp >= 55296 /\ cp <= 57343

Utf8EncodeCp(cp) ==
    IF cp < 128 THEN <<cp>>
    ELSE IF cp < 2048 THEN <<192 + (cp \div 64), 128 + (cp % 64)>>
    ELSE IF IsSurrogate(cp) THEN Raised
    ELSE IF cp < 65536
         THEN <<224 + (cp \div 4096), 128 + ((cp \div 64) % 64), 128 + (cp % 64)>>
    ELSE <<240 + (cp \div 262144), 128 + ((cp \div 4096) % 64),
           128 + ((cp \div 64) % 64), 128 + (cp % 64)>>

RECURSIVE EncodeUtf8(_)
EncodeUtf8(s) ==
    IF s = <<>> THEN <<>>
    ELSE LET h == Utf8EncodeCp(Head(s))
             t == EncodeUtf8(Tail(s))
         IN  IF h = Raised \/ t = Raised THEN Raised ELSE h \o t

EncodeLatin1(s) ==
    IF \E i \in DOMAIN s : s[i] > 255 THEN Raised
    ELSE [i \in DOMAIN s |-> s[i]]

DecodeLatin1(b) == [i \in DOMAIN b |-> b[i]]

IsCont(x) == x >= 128 /\ x <= 191

\* Number of bytes of the well-formed UTF-8 sequence starting at b[i], 0 if
\* there is none (truncated, overlong, surrogate, above U+10FFFF, stray byte).
Utf8Width(b, i) ==
    LET n == Len(b)
        b0 == b[i]
        c(k) == i + k <= n /\ IsCont(b[i + k])
    IN  IF b0 < 128 THEN 1
        ELSE IF b0 >= 194 /\ b0 <= 223 THEN (IF c(1) THEN 2 ELSE 0)
        ELSE IF b0 >= 224 /\ b0 <= 239
             THEN (IF c(1) /\ c(2)
                      /\ (b0 = 224 => b[i + 1] >= 160)
                      /\ (b0 = 237 => b[i + 1] <= 159) THEN 3 ELSE 0)
        ELSE IF b0 >= 240 /\ b0 <= 244
             THEN (IF c(1) /\ c(2) /\ c(3)
                      /\ (b0 = 240 => b[i + 1] >= 144)
                      /\ (b0 = 244 => b[i + 1] <= 143) THEN 4 ELSE 0)
        ELSE 0

Utf8DecodeCp(b, i, w) ==
    IF w = 1 THEN b[i]
    ELSE IF w = 2 THEN (b[i] - 192) * 64 + (b[i + 1] - 128)
    ELSE IF w = 3
         THEN (b[i] - 224) * 4096 + (b[i + 1] - 128) * 64 + (b[i + 2] - 128)
    ELSE (b[i] - 240) * 262144 + (b[i + 1] - 128) * 4096
         + (b[i + 2] - 128) * 64 + (b[i + 3] - 128)

RECURSIVE DecodeUtf8From(_, _)
DecodeUtf8From(b, i) ==
    IF i > Len(b) THEN <<>>
    ELSE LET w == Utf8Width(b, i)
         IN  IF w = 0 THEN Raised
             ELSE LET t == DecodeUtf8From(b, i + w)
                  IN  IF t = Raised THEN Raised
                      ELSE <<Utf8DecodeCp(b, i, w)>> \o t

DecodeUtf8(b) == DecodeUtf8From(b, 1)

\* The repair with the bytes read as Latin-1 again.
_fixMojibake_latin1(s) ==
    LET b == EncodeLatin1(s)
    IN  IF b = Raised THEN Raised ELSE DecodeLatin1(b)

\* s.encode('latin1').decode('utf-8')
_fixMojibake(s) ==
    LET b == EncodeLatin1(s)
    IN  IF b = Raised THEN Raised ELSE DecodeUtf8(b)

\* s.encode('utf-8').decode('latin1')
_unfixMojibake(s) ==
    LET b == EncodeUtf8(s)
    IN  IF b = Raised THEN Raised ELSE DecodeLatin1(b)

(***************************************************************************)
(* The phrase and its regular expression.                                  *)
(***************************************************************************)
\* ' set your nickname to '
MATCH_PHRASE == <<32,115,101,116,32,121,111,117,114,32,110,105,99,107,110,97,109,101,32,116,111,32>>

_PHRASE_OFFSET == Len(MATCH_PHRASE)

\* _REGEX = MATCH_PHRASE + '.+\Z' matches at the 1-based position i of c: the
\* phrase stands at i, at least one character follows it, and no line feed
\* stands between the phrase and the end of the string ('.' is any character
\* but a line feed, \Z is the end of the string).
_REGEX_matchesAt(c, i) ==
    /\ i + _PHRASE_OFFSET <= Len(c)
    /\ SubSeq(c, i, i + _PHRASE_OFFSET - 1) = MATCH_PHRASE
    /\ \A j \in (i + _PHRASE_OFFSET)..Len(c) : c[j] # 10

\* _REGEX.search(c).start(), the 0-based offset of the leftmost match; -1
\* when search returns None.
_REGEX_search(c) ==
    LET at == {i \in 1..Len(c) : _REGEX_matchesAt(c, i)}
    IN  IF at = {} THEN -1
        ELSE (CHOOSE i \in at : \A j \in at : i <= j) - 1

\* The slice without its -1: the full stop stays.
RawFoundNickname_keepsStop(c, start) ==
    SubSeq(c, start + 1 + _PHRASE_OFFSET, Len(c))

\* regexResult.group(0)[_PHRASE_OFFSET:-1] for the match starting at the
\* 0-based offset start: the match runs to the end of c.
RawFoundNickname(c, start) ==
    SubSeq(c, start + 1 + _PHRASE_OFFSET, Len(c) - 1)

(***************************************************************************)
(* _findInFile.                                                            *)
(***************************************************************************)
Has(d, key) == key \in DOMAIN d

\* _isParticipant ending in `return True`.
RECURSIVE _isParticipant_default(_, _)
_isParticipant_default(participants, user) ==
    IF participants = <<>> THEN "true"
    ELSE LET p == Head(participants)
         IN  IF ~Has(p, "name") THEN "raise"
             ELSE IF p.name = user THEN "true"
             ELSE _isParticipant_default(Tail(participants), user)

\* _isParticipant: "true", "false", or "raise" (an entry without 'name'
\* reached before an entry that equals the username).
RECURSIVE _isParticipant(_, _)
_isParticipant(participants, user) ==
    IF participants = <<>> THEN "false"
    ELSE LET p == Head(participants)
         IN  IF ~Has(p, "name") THEN "raise"
             ELSE IF p.name = user THEN "true"
             ELSE _isParticipant(Tail(participants), user)

\* `self.username and m['sender_name'] == self.username`: "raise" for a
\* message without sender_name, else "own" or "other".
SenderCheck_other(m, user) ==
    IF user = None THEN "other"
    ELSE IF ~Has(m, "sender_name") THEN "raise"
    ELSE "other"

SenderCheck(m, user) ==
    IF user = None THEN "other"
    ELSE IF ~Has(m, "sender_name") THEN "raise"
    ELSE IF m.sender_name = user THEN "own"
    ELSE "other"

\* `regexResult and regexResult.start() > 0`
MatchQualifies_atZeroToo(start) == start >= 0

MatchQualifies(start) == start > 0

\* One pass of the body of `for m in jdata['messages']`.
ScanMessage(m, user) ==
    IF SenderCheck(m, user) = "raise" THEN [kind |-> "raise"]
    ELSE IF SenderCheck(m, user) = "own" THEN [kind |-> "skip"]
    ELSE IF ~Has(m, "type") THEN [kind |-> "raise"]
    ELSE IF m.type # "Generic" \/ ~Has(m, "content") THEN [kind |-> "skip"]
    ELSE LET start == _REGEX_search(m.content)
         IN  IF MatchQualifies(start)
             THEN LET foundNickname ==
                          _fixMojibake(RawFoundNickname(m.content, start))
                  IN  IF foundNickname = Raised THEN [kind |-> "raise"]
                      ELSE IF ~Has(m, "timestamp_ms") THEN [kind |-> "raise"]
                      ELSE [kind |-> "append",
                            rec |-> [timestamp_ms |-> m.timestamp_ms,
                                     nickname |-> foundNickname]]
             ELSE [kind |-> "skip"]

\* The loop with the new record put first.
RECURSIVE ScanMessages_prepend(_, _, _, _)
ScanMessages_prepend(msgs, k, user, res) ==
    IF k > Len(msgs) THEN [result |-> res, msg |-> "none"]
    ELSE LET o == ScanMessage(msgs[k], user)
         IN  IF o.kind = "raise" THEN [result |-> res, msg |-> "error"]
             ELSE IF o.kind = "append"
                  THEN ScanMessages_prepend(msgs, k + 1, user, <<o.rec>> \o res)
             ELSE ScanMessages_prepend(msgs, k + 1, user, res)

\* The loop with the try inside it: a message that raises is passed over.
RECURSIVE ScanMessages_resume(_, _, _, _)
ScanMessages_resume(msgs, k, user, res) ==
    IF k > Len(msgs) THEN [result |-> res, msg |-> "none"]
    ELSE LET o == ScanMessage(msgs[k], user)
         IN  IF o.kind = "append"
             THEN ScanMessages_resume(msgs, k + 1, user, Append(res, o.rec))
             ELSE ScanMessages_resume(msgs, k + 1, user, res)

\* The loop over the messages from the k-th on, res the records so far.
RECURSIVE ScanMessages(_, _, _, _)
ScanMessages(msgs, k, user, res) ==
    IF k > Len(msgs) THEN [result |-> res, msg |-> "none"]
    ELSE LET o == ScanMessage(msgs[k], user)
         IN  IF o.kind = "raise" THEN [result |-> res, msg |-> "error"]
             ELSE IF o.kind = "append"
                  THEN ScanMessages(msgs, k + 1, user, Append(res, o.rec))
             ELSE ScanMessages(msgs, k + 1, user, res)

\* _findInFile(f) with self.username = user and self._result = res: the new
\* self._result and the message printed.
_findInFile(f, user, res) ==
    IF f.kind \in {"notfile", "badjson"}
    THEN [result |-> res, msg |-> "warn_json"]
    ELSE IF f.kind = "nonobject" THEN [result |-> res, msg |-> "error"]
    ELSE LET jdata == f.jdata
             part == IF user = None THEN "true"
                     ELSE IF ~Has(jdata, "participants") THEN "raise"
                     ELSE _isParticipant(jdata.participants, user)
         IN  IF part = "raise" THEN [result |-> res, msg |-> "error"]
             ELSE IF part = "false" THEN [result |-> res, msg |-> "none"]
             ELSE IF ~Has(jdata, "messages")
                  THEN [result |-> res, msg |-> "error"]
             ELSE ScanMessages(jdata.messages, 1, user, res)

(***************************************************************************)
(* Inputs: what the command line and the file system hand to the program.  *)
(***************************************************************************)
Str_S == <<83>>                 \* "S", another member of the conversation
Str_B == <<66>>                 \* "B"
Str_X == <<88>>                 \* "X"
Str_Stop == <<46>>              \* "."
Str_EAcute == <<233>>           \* "é" (U+00E9)
Str_EAcuteRaw == <<195, 169>>   \* "é" as the export stores it: "Ã©"

\* --username: absent, empty, "é", "S", and a lone surrogate (what
\* surrogateescape makes of an undecodable argument byte).
UsernameArgs == {None, <<>>, Str_EAcute, Str_S, <<56448>>}

Participants ==
    {<<[name |-> Str_S], [name |-> Str_EAcuteRaw]>>,
     <<[name |-> Str_S]>>,
     <<[name |-> Str_EAcuteRaw]>>,
     <<[other |-> Str_S], [name |-> Str_EAcuteRaw]>>}

Message(type, sender, content, ts) ==
    [type |-> type, sender_name |-> sender, content |-> content,
     timestamp_ms |-> ts]

\* "S set your nickname to <b>." at time ts
NicknameMessage(b, ts) ==
    Message("Generic", Str_S, Str_S \o MATCH_PHRASE \o b \o Str_Stop, ts)

\* The messages of the files of a whole run: two that yield different
\* records and one whose nickname is no mojibake (a real "é", the lone byte
\* 0xE9 is not UTF-8).
RunMsgs ==
    {NicknameMessage(Str_B, 1), NicknameMessage(Str_EAcuteRaw, 2),
     NicknameMessage(Str_EAcute, 3)}

ObjectFile(participants, messages) ==
    [kind |-> "object",
     jdata |-> [participants |-> participants, messages |-> messages]]

\* What a path of a run may lead to: no regular file, a file that is no
\* JSON, or a conversation.
\* Messages with a key missing, around the content of a nickname message.
KeylessMsgs ==
    LET c == Str_S \o MATCH_PHRASE \o Str_B \o Str_Stop
    IN  {[sender_name |-> Str_S, content |-> c, timestamp_ms |-> 1],
         [type |-> "Generic", content |-> c, timestamp_ms |-> 1],
         [type |-> "Generic", sender_name |-> Str_S, content |-> c]}

RunEntries ==
    LET both == <<[name |-> Str_S], [name |-> Str_EAcuteRaw]>>
    IN  {[kind |-> "notfile"], [kind |-> "badjson"]} \cup
        {ObjectFile(both, ms) : ms \in SeqsUpTo(RunMsgs, MaxMsgs)} \cup
        {ObjectFile(both, <<NicknameMessage(Str_B, 1), m>>) :
            m \in KeylessMsgs} \cup
        {ObjectFile(both, <<m, NicknameMessage(Str_EAcuteRaw, 2)>>) :
            m \in KeylessMsgs}

\* Message contents for the scan of one file: <a> phrase <b> <t>, and some
\* without the phrase.
ContentPrefixes ==
    {<<>>, Str_S, <<83, 10>>, MATCH_PHRASE \o Str_X,
     Str_S \o MATCH_PHRASE \o Str_X, MATCH_PHRASE \o <<10>>,
     Str_S \o SubSeq(MATCH_PHRASE, 1, _PHRASE_OFFSET - 1)}
ContentNicknames ==
    {<<>>, Str_B, Str_EAcuteRaw, Str_EAcute, <<263>>, <<66, 10, 66>>}
ContentTails == {<<>>, Str_Stop, <<46, 10>>}
Contents ==
    {a \o MATCH_PHRASE \o b \o t :
        a \in ContentPrefixes, b \in ContentNicknames, t \in ContentTails}
    \cup {<<>>, Str_S, Str_S \o SubSeq(MATCH_PHRASE, 1, _PHRASE_OFFSET - 1) \o Str_B}

\* The messages of the scan of one file: every content in a plain message at
\* time 7, and messages of other shapes around a content that matches.
ScanMsgs ==
    LET c == Str_S \o MATCH_PHRASE \o Str_B \o Str_Stop
        plain == Message("Generic", Str_S, c, 7)
    IN  {Message("Generic", Str_S, x, 7) : x \in Contents} \cup
        {Message("Share", Str_S, c, 7),
         Message("Generic", Str_EAcuteRaw, c, 7),
         [sender_name |-> Str_S, content |-> c, timestamp_ms |-> 7],
         [type |-> "Generic", content |-> c, timestamp_ms |-> 7],
         [type |-> "Generic", sender_name |-> Str_S, timestamp_ms |-> 7],
         [type |-> "Generic", sender_name |-> Str_S, content |-> c],
         [type |-> "Generic", sender_name |-> Str_S, content |-> Str_S],
         [sender_name |-> Str_EAcuteRaw, content |-> c, timestamp_ms |-> 7]}

ScanEntries ==
    {[kind |-> "badjson"], [kind |-> "nonobject"],
     [kind |-> "object", jdata |-> [participants |-> <<[name |-> Str_S]>>]],
     [kind |-> "object",
      jdata |-> [messages |-> <<NicknameMessage(Str_B, 7)>>]]} \cup
    {ObjectFile(p, Append(lead, m)) :
        p \in Participants, lead \in SeqsUpTo(RunMsgs, MaxMsgs - 1),
        m \in ScanMsgs}

CodePoints ==
    {65, 127, 128, 233, 255, 256, 2047, 2048, 8364, 55296, 57343, 65535,
     65536, 1114111}

NoEntry == [kind |-> "none"]
NoRoundTrip == [s |-> <<>>, u |-> <<>>, f |-> <<>>]

(***************************************************************************)
(* The run: __main__ and the public methods of the finder.                 *)
(***************************************************************************)
Init ==
    /\ pc = "start"
    /\ username = None
    /\ result = <<>>
    /\ crashed = FALSE
    /\ mode = "none"
    /\ todo = 0
    /\ cur = NoEntry
    /\ msg = "none"
    /\ warned = 0
    /\ outfile = <<>>
    /\ stale = FALSE
    /\ rt = NoRoundTrip

\* finder.setUsername(args.username); an argument that cannot be encoded
\* ends the process with a traceback.
SetUsername ==
    /\ pc = "start"
    /\ \E arg \in UsernameArgs :
        IF arg # None /\ arg # <<>>
        THEN LET u == _unfixMojibake(arg)
             IN  IF u = Raised
                 THEN pc' = "exit" /\ username' = username
                 ELSE pc' = "configured" /\ username' = u
        ELSE pc' = "configured" /\ username' = username
    /\ UNCHANGED <<result, crashed, mode, todo, cur, msg, warned, outfile, stale,
                   rt>>

\* _initProcess that keeps the list of the call before.
_initProcess_keeps ==
    /\ result' = result
    /\ crashed' = FALSE
    /\ stale' = (result # <<>>)
    /\ warned' = 0

\* _initProcess, as far as the finder's own fields go; stale remembers that
\* the call before left records behind.
_initProcess ==
    /\ result' = <<>>
    /\ crashed' = FALSE
    /\ stale' = (result # <<>>)
    /\ warned' = 0

\* findInFiles(files) up to its loop, files a list of n paths.
BeginFiles(n) ==
    /\ _initProcess
    /\ mode' = "files"
    /\ todo' = n
    /\ pc' = IF n = 0 THEN "ran" ELSE "loop"
    /\ cur' = NoEntry
    /\ msg' = "none"
    /\ UNCHANGED <<username, outfile, rt>>

FindInFiles ==
    /\ pc \in {"configured", "ran"}
    /\ \E n \in 0..MaxFiles : BeginFiles(n)

\* findInDirectory(path) up to its loop: path is a directory of n entries,
\* or no directory.
FindInDirectory ==
    /\ pc \in {"configured", "ran"}
    /\ _initProcess
    /\ mode' = "dir"
    /\ cur' = NoEntry
    /\ \E isdir \in BOOLEAN, n \in 0..MaxFiles :
        IF ~isdir
        THEN msg' = "fatal" /\ todo' = 0 /\ pc' = "ran"
        ELSE msg' = "none" /\ todo' = n
             /\ pc' = IF n = 0 THEN "ran" ELSE "loop"
    /\ UNCHANGED <<username, outfile, rt>>

\* The pass with `break` for `continue`: a path that is no file ends the
\* loop.
LoopPass_break(f) ==
    LET r == IF mode = "files" /\ f.kind = "notfile"
             THEN [result |-> result, msg |-> "warn_notfile"]
             ELSE _findInFile(f, username, result)
    IN  /\ result' = r.result
        /\ msg' = r.msg
        /\ warned' = IF r.msg \in {"warn_notfile", "warn_json"}
                     THEN warned + 1 ELSE warned
        /\ cur' = f
        /\ todo' = todo - 1
        /\ pc' = IF todo = 1 \/ r.msg = "warn_notfile" THEN "ran" ELSE "loop"
        /\ UNCHANGED <<username, crashed, mode, outfile, stale, rt>>

\* One pass of the loop of findInFiles / findInDirectory over the entry f.
LoopPass(f) ==
    LET r == IF mode = "files" /\ f.kind = "notfile"
             THEN [result |-> result, msg |-> "warn_notfile"]
             ELSE _findInFile(f, username, result)
    IN  /\ result' = r.result
        /\ msg' = r.msg
        /\ warned' = IF r.msg \in {"warn_notfile", "warn_json"}
                     THEN warned + 1 ELSE warned
        /\ cur' = f
        /\ todo' = todo - 1
        /\ pc' = IF todo = 1 THEN "ran" ELSE "loop"
        /\ UNCHANGED <<username, crashed, mode, outfile, stale, rt>>

FindInFilesStep ==
    /\ pc = "loop" /\ mode = "files"
    /\ \E f \in RunEntries : LoopPass(f)

FindInDirectoryStep ==
    /\ pc = "loop" /\ mode = "dir"
    /\ \E f \in RunEntries : LoopPass(f)

\* The end of __main__: printResult and writeResult unless finder.crashed.
Report ==
    /\ pc = "ran"
    /\ outfile' = IF ~crashed
                  THEN <<[result |-> result, length |-> Len(result)]>>
                  ELSE outfile
    /\ pc' = "exit"
    /\ UNCHANGED <<username, result, crashed, mode, todo, cur, msg, warned,
                   stale, rt>>

\* Neither a directory nor a file on the command line: usage, exit 0.
PrintHelp ==
    /\ pc = "configured"
    /\ pc' = "exit"
    /\ UNCHANGED <<username, result, crashed, mode, todo, cur, msg, warned,
                   outfile, stale, rt>>

Next ==
    \/ SetUsername
    \/ FindInFiles
    \/ FindInDirectory
    \/ FindInFilesStep
    \/ FindInDirectoryStep
    \/ Report
    \/ PrintHelp

Spec == Init /\ [][Next]_vars

(***************************************************************************)
(* The scan of one file: the run of `main.py FILE` over every shape of     *)
(* message.                                                                *)
(***************************************************************************)
FindInOneFile ==
    /\ pc = "configured"
    /\ BeginFiles(1)

ScanStep ==
    /\ pc = "loop" /\ mode = "files"
    /\ \E f \in ScanEntries : LoopPass(f)

NextScan ==
    \/ SetUsername
    \/ FindInOneFile
    \/ ScanStep

SpecScan == Init /\ [][NextScan]_vars

(***************************************************************************)
(* The round trip of a username through _unfixMojibake and _fixMojibake.   *)
(***************************************************************************)
InitRoundTrip ==
    /\ pc = "rt_start"
    /\ username = None
    /\ result = <<>>
    /\ crashed = FALSE
    /\ mode = "none"
    /\ todo = 0
    /\ cur = NoEntry
    /\ msg = "none"
    /\ warned = 0
    /\ outfile = <<>>
    /\ stale = FALSE
    /\ \E s \in SeqsUpTo(CodePoints, MaxLen) :
        rt = [s |-> s, u |-> <<>>, f |-> <<>>]

Unfix ==
    /\ pc = "rt_start"
    /\ rt' = [rt EXCEPT !.u = _unfixMojibake(rt.s)]
    /\ pc' = IF rt'.u = Raised THEN "rt_raised" ELSE "rt_unfixed"
    /\ UNCHANGED <<username, result, crashed, mode, todo, cur, msg, warned,
                   outfile, stale>>

Fix ==
    /\ pc = "rt_unfixed"
    /\ rt' = [rt EXCEPT !.f = _fixMojibake(rt.u)]
    /\ pc' = "rt_fixed"
    /\ UNCHANGED <<username, result, crashed, mode, todo, cur, msg, warned,
                   outfile, stale>>

NextRoundTrip ==
    \/ Unfix
    \/ Fix

SpecRoundTrip == InitRoundTrip /\ [][NextRoundTrip]_vars

(***************************************************************************)
(* Properties.                                                             *)
(***************************************************************************)
IsPrefix(a, b) == Len(a) <= Len(b) /\ SubSeq(b, 1, Len(a)) = a

Suffix(a, b) == SubSeq(b, Len(a) + 1, Len(b))

\* A step in which findInFiles or findInDirectory is entered.
IsCall == pc \in {"configured", "ran"} /\ pc' \in {"loop", "ran"}

\* A step in which the loop of either method visits an entry.
IsPass == pc = "loop" /\ todo' = todo - 1

\* C1: a directory run on a path that is no directory visits no entry,
\* prints the fatal message and nothing else, and writes no output file.
C1_InvalidDirectoryWritesNothing ==
    (mode = "dir" /\ msg = "fatal") =>
        /\ cur = NoEntry
        /\ result = <<>>
        /\ outfile = <<>>

\* C9: every call of findInFiles / findInDirectory starts from an empty
\* result, so the list holds the records of the most recent call only; a
\* directory call on a path that is no directory returns with it empty.
C9_ResultResetPerRun ==
    [][/\ IsCall => result' = <<>>
       /\ (IsCall /\ msg' = "fatal") => pc' = "ran"]_vars

\* A second call, on a path that is no directory, after a call that left
\* records: the result is empty.
C9_Witness ==
    /\ stale
    /\ pc = "ran"
    /\ mode = "dir"
    /\ msg = "fatal"
    /\ result = <<>>

\* C8 as stated: the round trip gives back every string.
C8_RoundTripEveryString ==
    /\ pc # "rt_raised"
    /\ pc = "rt_fixed" => rt.f = rt.s

\* C8: for every string s without a surrogate code point (every string
\* that has a UTF-8 encoding), _unfixMojibake(s) is made of code points of
\* at most 255 and _fixMojibake gives s back; with a surrogate in s,
\* _unfixMojibake raises.
C8_RoundTrip ==
    IF \E i \in DOMAIN rt.s : rt.s[i] >= 55296 /\ rt.s[i] <= 57343
    THEN pc \in {"rt_start", "rt_raised"}
    ELSE /\ pc # "rt_raised"
         /\ pc \in {"rt_unfixed", "rt_fixed"} =>
                \A i \in DOMAIN rt.u : rt.u[i] <= 255
         /\ pc = "rt_fixed" => rt.f = rt.s

\* A string with code points of two, three and four bytes has gone round.
C8_Witness ==
    /\ pc = "rt_fixed"
    /\ \E i \in DOMAIN rt.s : rt.s[i] >= 128
    /\ Len(rt.u) > Len(rt.s) + 1
    /\ rt.f = rt.s

(***************************************************************************)
(* Properties of the scan of one file.  The run visits one file from an    *)
(* empty result, so at the end result is what that file has contributed.   *)
(***************************************************************************)
Scanned == pc = "ran" /\ cur # NoEntry

\* The messages of the file visited, none if it holds no list of them.
CurMessages ==
    IF cur.kind = "object" /\ Has(cur.jdata, "messages")
    THEN cur.jdata.messages ELSE <<>>

\* The file passes the participant filter: no username is configured, or
\* an entry of its participants is named username and every entry before
\* that one has a name.
PassesFilter ==
    \/ username = None
    \/ /\ cur.kind = "object"
       /\ Has(cur.jdata, "participants")
       /\ LET ps == cur.jdata.participants
          IN  \E i \in DOMAIN ps :
                /\ \A j \in 1..i : Has(ps[j], "name")
                /\ ps[i].name = username

\* The phrase stands in c at the 0-based offset off.
PhraseAt(c, off) ==
    /\ off + Len(MATCH_PHRASE) <= Len(c)
    /\ \A j \in DOMAIN MATCH_PHRASE : c[off + j] = MATCH_PHRASE[j]

\* An attribution of the records recs to the messages msgs: pick[k] says
\* that message k yielded a record; the records follow the order of the
\* messages picked and carry their timestamps.
Picks(msgs) == [DOMAIN msgs -> BOOLEAN]

Rank(pick, k) == Cardinality({j \in 1..k : pick[j]})

Attributes(pick, msgs, recs) ==
    /\ Len(recs) = Rank(pick, Len(msgs))
    /\ \A k \in DOMAIN msgs :
        pick[k] => /\ Has(msgs[k], "timestamp_ms")
                   /\ recs[Rank(pick, k)].timestamp_ms = msgs[k].timestamp_ms

SentBySelf(m) ==
    username # None /\ Has(m, "sender_name") /\ m.sender_name = username

\* The offsets off >= 1 at which c reads <A> phrase <B> "." with A the off
\* characters before the phrase, and the B of such an offset.
FormOffsets(c) ==
    {off \in 1..Len(c) :
        /\ PhraseAt(c, off)
        /\ off + Len(MATCH_PHRASE) < Len(c)
        /\ c[Len(c)] = 46}

FormNickname(c, off) == SubSeq(c, off + Len(MATCH_PHRASE) + 1, Len(c) - 1)

IsNicknameMessage(m) ==
    /\ Has(m, "type") /\ m.type = "Generic"
    /\ Has(m, "content") /\ FormOffsets(m.content) # {}
    /\ Has(m, "timestamp_ms")
    /\ ~SentBySelf(m)

\* C2 as stated: every Generic message, not sent by the username, of a file
\* that passes the participant filter, whose content is <A> phrase <B> "."
\* with A not empty, yields exactly one record, of nickname
\* _fixMojibake(B) and of the message's timestamp.
C2_EveryNicknameMessageRecorded ==
    (Scanned /\ PassesFilter) =>
        \E pick \in Picks(CurMessages) :
            /\ Attributes(pick, CurMessages, result)
            /\ \A k \in DOMAIN CurMessages :
                LET m == CurMessages[k]
                IN  IsNicknameMessage(m) =>
                        /\ pick[k]
                        /\ \E off \in FormOffsets(m.content) :
                            result[Rank(pick, k)].nickname =
                                _fixMojibake(FormNickname(m.content, off))

\* The offset of the first occurrence of the phrase in c, -1 if none.
FirstPhrase(c) ==
    LET offs == {off \in 0..Len(c) : PhraseAt(c, off)}
    IN  IF offs = {} THEN -1
        ELSE CHOOSE off \in offs : \A o \in offs : off <= o

\* The message is one of C2 as amended.
IsRepairableNicknameMessage(m) ==
    /\ Has(m, "type") /\ m.type = "Generic"
    /\ Has(m, "content")
    /\ Has(m, "timestamp_ms")
    /\ username # None => (Has(m, "sender_name") /\ m.sender_name # username)
    /\ LET c == m.content
           off == FirstPhrase(c)
       IN  /\ off \in FormOffsets(c)
           /\ \A i \in DOMAIN FormNickname(c, off) :
                FormNickname(c, off)[i] # 10
           /\ _fixMojibake(FormNickname(c, off)) # Raised

\* C2: in a file that passes the participant filter, every message that
\* the scan reaches (no message before it raises), of type "Generic", with a
\* timestamp_ms, not sent by the username (with a sender_name if a username
\* is configured), whose content is <A> phrase <B> "." where A is not empty,
\* the phrase occurs nowhere before this occurrence, B holds no line feed
\* and _fixMojibake(B) succeeds, yields exactly one record, of nickname
\* _fixMojibake(B) and of the message's timestamp.
C2_NicknameMessageRecorded ==
    (Scanned /\ PassesFilter) =>
        \E pick \in Picks(CurMessages) :
            /\ Attributes(pick, CurMessages, result)
            /\ \A k \in DOMAIN CurMessages :
                LET m == CurMessages[k]
                IN  (/\ IsRepairableNicknameMessage(m)
                     /\ \A j \in 1..(k - 1) :
                            ScanMessage(CurMessages[j], username).kind
                                # "raise") =>
                        /\ pick[k]
                        /\ result[Rank(pick, k)].nickname =
                            _fixMojibake(FormNickname(m.content,
                                                      FirstPhrase(m.content)))

\* A file of two such messages, the second with a mojibake nickname, has
\* yielded both records, the second repaired to "é".
C2_Witness ==
    /\ Scanned /\ PassesFilter
    /\ username # None
    /\ Len(CurMessages) = 2
    /\ \A k \in DOMAIN CurMessages : IsRepairableNicknameMessage(CurMessages[k])
    /\ Len(result) = 2
    /\ result[2] = [timestamp_ms |-> 7, nickname |-> Str_EAcute]

\* The regular expression matches c at offset 0.
MatchAtZero(c) ==
    /\ PhraseAt(c, 0)
    /\ Len(c) > Len(MATCH_PHRASE)
    /\ \A j \in (Len(MATCH_PHRASE) + 1)..Len(c) : c[j] # 10

\* C3: a message yields a record only if its content holds the phrase at
\* an offset greater than 0; so a file with the phrase in no content adds no
\* record; and a message whose content the expression matches at offset 0
\* yields none.
C3_RecordOnlyForPhraseAfterPrefix ==
    Scanned =>
        \E pick \in Picks(CurMessages) :
            /\ Attributes(pick, CurMessages, result)
            /\ \A k \in DOMAIN CurMessages :
                LET m == CurMessages[k]
                IN  /\ pick[k] =>
                        /\ Has(m, "content")
                        /\ \E off \in 1..Len(m.content) : PhraseAt(m.content, off)
                    /\ (Has(m, "content") /\ MatchAtZero(m.content)) => ~pick[k]

\* A file of a nickname message and of a Generic message whose content
\* starts with the phrase and goes on with a nickname: one record, the
\* first message's.
C3_Witness ==
    /\ Scanned /\ PassesFilter
    /\ Len(CurMessages) = 2
    /\ IsRepairableNicknameMessage(CurMessages[1])
    /\ LET m == CurMessages[2]
       IN  /\ Has(m, "type") /\ m.type = "Generic" /\ ~SentBySelf(m)
           /\ Has(m, "content") /\ MatchAtZero(m.content)
           /\ m.content[Len(m.content)] = 46
    /\ Len(result) = 1
    /\ result[1].timestamp_ms = CurMessages[1].timestamp_ms

\* C4: with a username configured, a parsed file whose participants hold no
\* entry named username adds no record, whatever its messages.
C4_NonParticipantFileAddsNothing ==
    (/\ Scanned
     /\ username # None
     /\ cur.kind = "object"
     /\ Has(cur.jdata, "participants")
     /\ \A i \in DOMAIN cur.jdata.participants :
            LET p == cur.jdata.participants[i]
            IN  Has(p, "name") => p.name # username) =>
        result = <<>>

\* Such a file, all of whose messages are nickname messages of others.
C4_Witness ==
    /\ Scanned
    /\ username # None
    /\ cur.kind = "object"
    /\ Has(cur.jdata, "participants")
    /\ \A i \in DOMAIN cur.jdata.participants :
            LET p == cur.jdata.participants[i]
            IN  Has(p, "name") /\ p.name # username
    /\ Len(CurMessages) = 2
    /\ \A k \in DOMAIN CurMessages : IsRepairableNicknameMessage(CurMessages[k])
    /\ result = <<>>

\* C5: with a username configured, a message whose sender_name is the
\* username yields no record, whatever its type and content.
C5_OwnMessagesYieldNothing ==
    (Scanned /\ username # None) =>
        \E pick \in Picks(CurMessages) :
            /\ Attributes(pick, CurMessages, result)
            /\ \A k \in DOMAIN CurMessages :
                SentBySelf(CurMessages[k]) => ~pick[k]

\* The username was given as "é" and is held as "Ã©"; a file of which the
\* user is a participant holds a nickname message of another member and a
\* Generic message of the user with the phrase after a prefix; one record.
C5_Witness ==
    /\ Scanned /\ PassesFilter
    /\ username = Str_EAcuteRaw
    /\ Len(CurMessages) = 2
    /\ IsRepairableNicknameMessage(CurMessages[1])
    /\ LET m == CurMessages[2]
       IN  /\ SentBySelf(m)
           /\ Has(m, "type") /\ m.type = "Generic"
           /\ Has(m, "content") /\ Has(m, "timestamp_ms")
           /\ FirstPhrase(m.content) > 0
           /\ FormOffsets(m.content) # {}
    /\ Len(result) = 1

(***************************************************************************)
(* Properties of a whole run.                                              *)
(***************************************************************************)
\* C6: in findInFiles a path that is no regular file, or a file that cannot
\* be parsed, adds no record, leaves the records accumulated as they are and
\* does not end the loop: the loop goes on while paths are left, and the
\* method returns only when none is.
C6_BadPathsAreSkipped ==
    /\ [](pc = "ran" => todo = 0)
    /\ [][(/\ IsPass
           /\ mode = "files"
           /\ cur'.kind \in {"notfile", "badjson"}) =>
            /\ result' = result
            /\ warned' = warned + 1
            /\ pc' = IF todo > 1 THEN "loop" ELSE "ran"]_vars

\* A list of a bad path and then a conversation: the conversation's
\* records are there.
C6_Witness ==
    /\ pc = "ran"
    /\ mode = "files"
    /\ warned = 1
    /\ cur.kind = "object"
    /\ Len(result) = 2

\* The records the first n messages of msgs yield, each for itself.
RECURSIVE RecordsOf(_, _, _)
RecordsOf(msgs, n, user) ==
    IF n = 0 THEN <<>>
    ELSE LET o == ScanMessage(msgs[n], user)
         IN  RecordsOf(msgs, n - 1, user)
             \o (IF o.kind = "append" THEN <<o.rec>> ELSE <<>>)

\* C7: within a run the list only grows at its end, and what a file adds
\* are the records of its first n messages, for some n, one for each message
\* that yields one, in the order of the messages.
C7_AppendOnlyInOrder ==
    [][/\ ~IsCall => IsPrefix(result, result')
       /\ IsPass => \E n \in 0..Len(CurMessages') :
                        result' = result \o RecordsOf(CurMessages', n, username)
      ]_vars

\* Two files: the first has given the same record twice, the second a
\* different one, which stands last.
C7_Witness ==
    /\ pc = "ran"
    /\ Len(result) = 3
    /\ result[1] = result[2]
    /\ result[3] # result[1]
    /\ Len(CurMessages) = 1
    /\ result[3].timestamp_ms = CurMessages[1].timestamp_ms

\* The first message of msgs whose processing raises, 0 if none does.
FirstRaise(msgs, user) ==
    LET ks == {k \in DOMAIN msgs : ScanMessage(msgs[k], user).kind = "raise"}
    IN  IF ks = {} THEN 0 ELSE CHOOSE k \in ks : \A j \in ks : k <= j

\* C10: when the processing of message k of a parsed file raises, the file
\* has added the records of its messages before k and nothing else, the
\* error is reported, and the loop goes on with the next entry.
C10_RaiseAbandonsRestOfFile ==
    [][(/\ IsPass
        /\ PassesFilter'
        /\ FirstRaise(CurMessages', username) > 0) =>
            /\ result' = result \o
                   RecordsOf(CurMessages', FirstRaise(CurMessages', username) - 1,
                             username)
            /\ msg' = "error"
            /\ pc' = IF todo > 1 THEN "loop" ELSE "ran"]_vars

\* The first of two files: its first message has given a record, its
\* second one raised, and a file is still to come.
C10_Witness ==
    /\ pc = "loop"
    /\ msg = "error"
    /\ Len(CurMessages) = 2
    /\ FirstRaise(CurMessages, username) = 2
    /\ Len(result) = 1

=============================================================================
